---- MODULE Spec2Model ----
(***************************************************************************)
(* Model of the HIRE-TRON recruiting workflow: the validated LangGraph     *)
(* pipeline (Langgraph_recruiting.py, second variant), the retry-decorated *)
(* agents (agents/*.py), the batch processor (app.py), the retrieval and   *)
(* concurrent screening of candidates (services/retriever.py,              *)
(* agents/orchestrator.py) and the validators (Validation_demo.py).        *)
(***************************************************************************)
EXTENDS Integers, Sequences, FiniteSets, TLC

VARIABLES
    chan,        \* the graph's state channels: the merged RecruitingState
    given,       \* given[s]: the state handed to stage s when it started
    status,      \* status[s]: "idle" | "running" | "done" | "raised"
    outcome,     \* outcome[s]: what the completion capability did for s
    calls,       \* calls[s]: number of llm.invoke calls stage s has made
    run,         \* graph.invoke: "running" | "returned" | "raised"
    completed,   \* the stages that have completed, in the order they did
    responded,   \* responded[s]: the response stage s got from its call
    agentPc,     \* agentPc[a]: "call" | "done", the retry-decorated agent methods
    attempts,    \* attempts[a]: attempts the retry decorator has made for a
    agentResult, \* agentResult[a]: what the decorated method returned
    configs,     \* process_batch: job_configs
    callback,    \* process_batch: progress_callback (behaviour)
    idx,         \* process_batch: loop index
    results,     \* process_batch: results list
    progress,    \* calls received by the progress callback
    runs,        \* runs[i]: how process_single ended for item i
    bpc,         \* process_batch: "notify" | "process" | "returned" | "raised"
    rkPc,        \* ranking: "lookup" | "embed" | "search" | "tasks" | "gather" | "returned"
    retrieval,   \* how retrieve_candidates_for_job ended
    embedCalls,  \* attempts the retry decorator has made for generate_embedding
    embedWaits,  \* the waits the retry decorator made between those attempts
    candidates,  \* the list retrieve_candidates_for_job returned
    tasks,       \* tasks[i]: the outcome of candidate i's screening task
    enriched,    \* screen_multiple_candidates: enriched_results
    vCall,       \* the validator call under test: function, variant, arguments
    vNow,        \* datetime.now() as the validators read it
    vReturned    \* what the successive calls of vCall returned

graphVars == <<chan, given, status, outcome, calls, run, completed, responded>>
agentVars == <<agentPc, attempts, agentResult>>
batchVars == <<configs, callback, idx, results, progress, runs, bpc>>
rankVars == <<rkPc, retrieval, embedCalls, embedWaits, candidates, tasks, enriched>>
validatorVars == <<vCall, vNow, vReturned>>
vars == <<chan, given, status, outcome, calls, run, completed, responded, agentPc, attempts,
          agentResult, configs, callback, idx, results, progress, runs, bpc,
          rkPc, retrieval, embedCalls, embedWaits, candidates, tasks, enriched,
          vCall, vNow, vReturned>>

----------------------------------------------------------------------------
(* Python values.  A value carries its type tag t, its text or list        *)
(* content v and its numbers n, so that values of different Python types   *)
(* stay comparable.                                                        *)

Str(s) == [t |-> "str", v |-> IF s = "" THEN <<>> ELSE <<s>>, n |-> <<>>]
List(q) == [t |-> "list", v |-> q, n |-> <<>>]
Num(x) == [t |-> "num", v |-> <<>>, n |-> <<x>>]
Range(lo, hi) == [t |-> "dict", v |-> <<"min", "max">>, n |-> <<lo, hi>>]
None == [t |-> "null", v |-> <<>>, n |-> <<>>]

\* No value counts as empty.
IsEmptyValueNever(val) == FALSE
\* Python truthiness of `value is None or (isinstance(value, (list, dict, str)) and not value)`
IsEmptyValue(val) ==
    \/ val.t = "null"
    \/ val.t \in {"list", "dict", "str"} /\ val.v = <<>>

\* An error entry whose text names no field.
ErrNamesNoFields(src, msg, fields) == [src |-> src, msg |-> msg, fields |-> <<>>]
\* An error entry of the errors list: the text is "<src>: <msg> <fields>".
Err(src, msg, fields) == [src |-> src, msg |-> msg, fields |-> fields]

\* The key is absent from the state dict.
Absent == [absent |-> TRUE]
NoLetter == [text |-> "<absent>", len |-> 0]

----------------------------------------------------------------------------
(* Validation functions.                                                    *)

\* A stripped length that takes the whitespace off twice.
StripLenCountsPadTwice(jd) == jd.len - 2 * jd.pad
\* A job description is its length and the number of leading or trailing
\* whitespace characters in it; len(jd.strip()) = len - pad.
StripLen(jd) == jd.len - jd.pad

MinDescriptionLen == 50
MaxDescriptionLen == 5000
LowSalary == 20000
HighSalary == 1000000

validate_input(state) ==
    LET jd == state.job_description
        min_sal == state.min_salary
        max_sal == state.max_salary
        e1 == IF jd.len = 0 \/ StripLen(jd) < MinDescriptionLen
              THEN <<Err("input", "Job description must be at least 50 characters", <<>>)>>
              ELSE <<>>
        e2 == IF state.company_name = ""
              THEN <<Err("input", "Company name is required", <<>>)>> ELSE <<>>
        e3 == IF min_sal <= 0 \/ max_sal <= 0
              THEN <<Err("input", "Salary range must be positive numbers", <<>>)>> ELSE <<>>
        e4 == IF min_sal >= max_sal
              THEN <<Err("input", "Minimum salary must be less than maximum salary", <<>>)>>
              ELSE <<>>
        w1 == IF jd.len > MaxDescriptionLen
              THEN <<"Very long job description - may increase processing time">> ELSE <<>>
        w2 == IF state.department = ""
              THEN <<"Department not specified - using 'General'">> ELSE <<>>
        w3 == IF min_sal < LowSalary THEN <<"Minimum salary seems very low">> ELSE <<>>
        w4 == IF max_sal > HighSalary THEN <<"Maximum salary seems very high">> ELSE <<>>
        errors == e1 \o e2 \o e3 \o e4
    IN  [valid |-> Len(errors) = 0, errors |-> errors, warnings |-> w1 \o w2 \o w3 \o w4]

\* output is a dict (a function from field names to values) or NonDict.
NonDict == [nondict |-> TRUE]

RECURSIVE SelectMissing(_, _)
SelectMissing(fields, output) ==
    IF fields = <<>> THEN <<>>
    ELSE (IF Head(fields) \in DOMAIN output THEN <<>> ELSE <<Head(fields)>>)
         \o SelectMissing(Tail(fields), output)

RECURSIVE EmptyWarnings(_, _, _)
EmptyWarnings(agent_name, fields, output) ==
    IF fields = <<>> THEN <<>>
    ELSE (IF Head(fields) \in DOMAIN output /\ IsEmptyValue(output[Head(fields)])
          THEN <<Err(agent_name, "Field is empty", <<Head(fields)>>)>> ELSE <<>>)
         \o EmptyWarnings(agent_name, Tail(fields), output)

validate_agent_output(agent_name, output, expected_fields) ==
    IF output = NonDict
    THEN [valid |-> FALSE,
          errors |-> <<Err(agent_name, "Output must be a dictionary", <<>>)>>,
          warnings |-> <<>>]
    ELSE LET missing_fields == SelectMissing(expected_fields, output)
             errors == IF missing_fields # <<>>
                       THEN <<Err(agent_name, "Missing fields", missing_fields)>>
                       ELSE <<>>
         IN  [valid |-> Len(errors) = 0, errors |-> errors,
              warnings |-> EmptyWarnings(agent_name, expected_fields, output)]

----------------------------------------------------------------------------
(* Stage payloads: the literal fallback defaults of the validated stages   *)
(* and the responses the completion capability can give.                   *)

JobExpected == <<"job_title", "experience_level", "employment_type",
                 "required_skills", "responsibilities", "qualifications">>
SourcingExpected == <<"platforms", "search_keywords", "outreach_strategy", "timeline">>
ScreeningExpected == <<"must_have_criteria", "screening_questions">>
CompensationExpected == <<"target_salary", "benefits_package">>

ParseFailure == "error" :> Str("Failed to parse LLM response")

JobFallback ==
    ("job_title" :> Str("Software Engineer")) @@ ("experience_level" :> Str("3+ years"))
    @@ ("employment_type" :> Str("Full-time")) @@ ("required_skills" :> List(<<"Python">>))
    @@ ("nice_to_have_skills" :> List(<<"AWS">>))
    @@ ("responsibilities" :> List(<<"Develop software">>))
    @@ ("qualifications" :> List(<<"Bachelor's degree">>)) @@ ParseFailure

SourcingFallback ==
    ("platforms" :> List(<<"LinkedIn: Professional network">>))
    @@ ("search_keywords" :> List(<<"Python Developer">>))
    @@ ("sourcing_channels" :> List(<<"Job boards">>))
    @@ ("outreach_strategy" :> Str("Direct outreach")) @@ ("timeline" :> Str("2-4 weeks"))
    @@ ParseFailure

ScreeningFallback ==
    ("must_have_criteria" :> List(<<"Relevant experience">>))
    @@ ("nice_to_have_criteria" :> List(<<"Advanced skills">>))
    @@ ("screening_questions" :> List(<<"Tell me about your experience">>))
    @@ ("technical_assessment" :> Str("Coding challenge"))
    @@ ("evaluation_rubric" :> Str("Standard evaluation")) @@ ParseFailure

\* A compensation fallback whose target is the top of the range plus one.
CompensationFallbackAboveRange(state) ==
    ("market_analysis" :> Str("Competitive market"))
    @@ ("recommended_salary_range" :> Range(state.min_salary, state.max_salary))
    @@ ("target_salary" :> Num(state.max_salary + 1))
    @@ ("benefits_package" :> List(<<"Health insurance", "PTO">>))
    @@ ("equity_structure" :> Str("Standard equity"))
    @@ ("justification" :> Str("Market competitive")) @@ ParseFailure

\* compensation_agent, `except json.JSONDecodeError`: the default package.
CompensationFallback(state) ==
    ("market_analysis" :> Str("Competitive market"))
    @@ ("recommended_salary_range" :> Range(state.min_salary, state.max_salary))
    @@ ("target_salary" :> Num((state.min_salary + state.max_salary) \div 2))
    @@ ("benefits_package" :> List(<<"Health insurance", "PTO">>))
    @@ ("equity_structure" :> Str("Standard equity"))
    @@ ("justification" :> Str("Market competitive")) @@ ParseFailure

ValidationFailed == "error" :> Str("Validation failed")

\* Well-formed responses of the completion capability, one complete and one
\* with required fields missing, per JSON stage.
JobReal ==
    ("job_title" :> Str("Senior Python Developer")) @@ ("experience_level" :> Str("5+ years"))
    @@ ("employment_type" :> Str("Full-time")) @@ ("required_skills" :> List(<<"Django", "AWS">>))
    @@ ("nice_to_have_skills" :> List(<<>>))
    @@ ("responsibilities" :> List(<<"Lead backend architecture">>))
    @@ ("qualifications" :> List(<<"Degree">>))
JobPartial == ("job_title" :> Str("Senior Python Developer")) @@ ("required_skills" :> List(<<>>))

SourcingReal ==
    ("platforms" :> List(<<"GitHub: Code">>)) @@ ("search_keywords" :> List(<<"Django">>))
    @@ ("sourcing_channels" :> List(<<"Referrals">>))
    @@ ("outreach_strategy" :> Str("Personal email")) @@ ("timeline" :> Str("3 weeks"))
SourcingPartial == "platforms" :> List(<<"GitHub: Code">>)

ScreeningReal ==
    ("must_have_criteria" :> List(<<"5 years Python">>))
    @@ ("nice_to_have_criteria" :> List(<<"AWS">>))
    @@ ("screening_questions" :> List(<<"Describe a Django project">>))
    @@ ("technical_assessment" :> Str("Take-home")) @@ ("evaluation_rubric" :> Str("Rubric"))
ScreeningPartial == "screening_questions" :> List(<<"Describe a Django project">>)

CompensationReal(target) ==
    ("market_analysis" :> Str("Strong demand")) @@ ("target_salary" :> target)
    @@ ("benefits_package" :> List(<<"Health insurance">>))
    @@ ("equity_structure" :> Str("0.1%")) @@ ("justification" :> Str("Market data"))
CompensationPartial == "market_analysis" :> Str("Strong demand")

ShortLetterLen == 150
LongLetterLen == 800
MinLetterLen == 200

Response(kind, body, len) == [kind |-> kind, body |-> body, len |-> len]
Failure == Response("fail", <<>>, 0)              \* llm.invoke raises a provider error
Text(len) == Response("text", <<>>, len)          \* response.content is not JSON
Json(body) == Response("json", body, LongLetterLen)  \* response.content is JSON
NoResponse == Response("none", <<>>, 0)           \* llm.invoke was not called

Responses(s) ==
    CASE s = "parse_job" ->
           {Failure, Text(LongLetterLen), Json(JobReal), Json(JobPartial), Json(NonDict)}
      [] s = "source_candidates" ->
           {Failure, Text(LongLetterLen), Json(SourcingReal), Json(SourcingPartial), Json(NonDict)}
      [] s = "create_screening" ->
           {Failure, Text(LongLetterLen), Json(ScreeningReal), Json(ScreeningPartial), Json(NonDict)}
      [] s = "analyze_compensation" ->
           {Failure, Text(LongLetterLen), Json(CompensationReal(Num(140000))),
            Json(CompensationReal(Num(90000))), Json(CompensationReal(Str("140k"))),
            Json(CompensationPartial), Json(NonDict)}
      [] s = "generate_offer" ->
           {Failure, Text(ShortLetterLen), Text(LongLetterLen)}

----------------------------------------------------------------------------
(* The validated stage functions.  Each takes the state it is given and    *)
(* the response of its one llm.invoke call and returns the state it hands  *)
(* back, or raises.                                                        *)

Returns(state) == [raised |-> FALSE, state |-> state]
Raises(state) == [raised |-> TRUE, state |-> state]

\* state['errors'] = state.get('errors', []) + output_validation['errors'], when invalid;
\* state['validation_results'][key] = output_validation
RecordValidation(state, key, ov) ==
    [state EXCEPT !.errors = IF ov.valid THEN @ ELSE @ \o ov.errors,
                  !.validation_results = (key :> ov) @@ @]

DecodeFailure(state, agent_name) ==
    [state EXCEPT !.errors = @ \o <<Err(agent_name, "Failed to parse LLM response", <<>>)>>]

job_parser_agent(state, r) ==
    LET validation == validate_input(state) IN
    IF ~validation.valid
    THEN Returns([state EXCEPT !.errors = @ \o validation.errors,
                               !.job_analysis = ValidationFailed])
    ELSE IF r.kind = "fail" THEN Raises(state)
    ELSE IF r.kind = "text"
    THEN Returns([DecodeFailure(state, "Job Parser") EXCEPT
                      !.job_analysis = JobFallback,
                      !.messages = Append(@, "Job Parser completed")])
    ELSE LET s1 == RecordValidation(state, "job_parser",
                       validate_agent_output("Job Parser", r.body, JobExpected))
         IN  IF r.body = NonDict
             THEN Raises(s1)      \* parsed_data.get on a non-dict
             ELSE Returns([s1 EXCEPT !.job_analysis = r.body,
                                     !.messages = Append(@, "Job Parser completed")])

candidate_sourcing_agent(state, r) ==
    IF r.kind = "fail" THEN Raises(state)
    ELSE IF r.kind = "text"
    THEN Returns([DecodeFailure(state, "Sourcing") EXCEPT
                      !.sourcing_strategy = SourcingFallback,
                      !.messages = Append(@, "Sourcing strategy created")])
    ELSE LET s1 == RecordValidation(state, "sourcing",
                       validate_agent_output("Sourcing", r.body, SourcingExpected))
         IN  IF r.body = NonDict
             THEN Raises(s1)
             ELSE Returns([s1 EXCEPT !.sourcing_strategy = r.body,
                                     !.messages = Append(@, "Sourcing strategy created")])

screening_agent(state, r) ==
    IF r.kind = "fail" THEN Raises(state)
    ELSE IF r.kind = "text"
    THEN Returns([DecodeFailure(state, "Screening") EXCEPT
                      !.screening_criteria = ScreeningFallback,
                      !.messages = Append(@, "Screening created")])
    ELSE LET s1 == RecordValidation(state, "screening",
                       validate_agent_output("Screening", r.body, ScreeningExpected))
         IN  IF r.body = NonDict
             THEN Raises(s1)
             ELSE Returns([s1 EXCEPT !.screening_criteria = r.body,
                                     !.messages = Append(@, "Screening created")])

compensation_agent(state, r) ==
    IF r.kind = "fail" THEN Raises(state)
    ELSE IF r.kind = "text"
    THEN Returns([DecodeFailure(state, "Compensation") EXCEPT
                      !.compensation_package = CompensationFallback(state),
                      !.messages = Append(@, "Compensation package")])
    ELSE LET comp_data == r.body
             ov0 == validate_agent_output("Compensation", comp_data, CompensationExpected)
             has_target == comp_data # NonDict /\ "target_salary" \in DOMAIN comp_data
         IN  IF has_target /\ comp_data["target_salary"].t # "num"
             THEN Raises(state)   \* target < state['min_salary'] on a non-number
             ELSE
             LET target == comp_data["target_salary"].n[1]
                 ov == IF has_target /\ (target < state.min_salary \/ target > state.max_salary)
                       THEN [ov0 EXCEPT !.warnings = Append(@,
                                Err("Compensation", "Target salary is outside budget range", <<>>))]
                       ELSE ov0
                 s1 == RecordValidation(state, "compensation", ov)
                 ranged == IF "recommended_salary_range" \in DOMAIN comp_data
                           THEN comp_data
                           ELSE comp_data @@ ("recommended_salary_range" :>
                                    Range(state.min_salary, state.max_salary))
             IN  IF comp_data = NonDict
                 THEN Raises(s1)  \* item assignment on a non-dict
                 ELSE Returns([s1 EXCEPT !.compensation_package = ranged,
                                         !.messages = Append(@, "Compensation package")])

ErrorLetter == [text |-> "Error generating offer letter: provider error", len |-> 45]

offer_letter_agent(state, r) ==
    LET package == IF state.compensation_package = Absent THEN <<>>
                   ELSE state.compensation_package
    IN  IF "target_salary" \in DOMAIN package /\ package["target_salary"].t # "num"
        THEN Raises(state)        \* f"${target_salary:,}" on a non-number
        ELSE IF r.kind = "fail"
        THEN Returns([state EXCEPT
                 !.errors = @ \o <<Err("Offer Letter", "provider error", <<>>)>>,
                 !.offer_letter = ErrorLetter,
                 !.messages = Append(@, "Offer letter generated")])
        ELSE LET long_enough == r.len >= MinLetterLen
                 check == [valid |-> long_enough,
                           errors |-> IF long_enough THEN <<>>
                                      ELSE <<Err("", "Letter too short", <<>>)>>,
                           warnings |-> <<>>, char_count |-> r.len]
             IN  Returns([state EXCEPT
                     !.errors = IF long_enough THEN @
                                ELSE @ \o <<Err("Offer Letter", "Generated letter is too short", <<>>)>>,
                     !.validation_results = ("offer_letter" :> check) @@ @,
                     !.offer_letter = [text |-> "letter", len |-> r.len],
                     !.messages = Append(@, "Offer letter generated")])

----------------------------------------------------------------------------
(* The workflow graph.  The graph is run as its edges declare it: a stage   *)
(* may start once every stage with an edge into it has completed, stages   *)
(* that are eligible together run concurrently, and a stage works on the   *)
(* state it was handed when it started.  The scheduler of the graph        *)
(* library is not part of the repository; nothing beyond the declared      *)
(* edges and the declared reducers is assumed of it.                       *)

Stages == {"parse_job", "source_candidates", "create_screening",
           "analyze_compensation", "generate_offer"}

EntryPoint == "parse_job"

\* Edges with generate_offer fed by parse_job instead of analyze_compensation.
EdgesOfferAfterParse ==
    {<<"parse_job", "source_candidates">>, <<"parse_job", "create_screening">>,
     <<"parse_job", "analyze_compensation">>, <<"parse_job", "generate_offer">>,
     <<"source_candidates", "END">>, <<"create_screening", "END">>,
     <<"analyze_compensation", "END">>, <<"generate_offer", "END">>}

\* Edges with generate_offer joining all three branches.
EdgesOfferJoinsAll ==
    {<<"parse_job", "source_candidates">>, <<"parse_job", "create_screening">>,
     <<"parse_job", "analyze_compensation">>,
     <<"analyze_compensation", "generate_offer">>,
     <<"source_candidates", "generate_offer">>,
     <<"create_screening", "generate_offer">>, <<"generate_offer", "END">>}

\* Edges with generate_offer fed by source_candidates.
EdgesOfferAfterSourcing ==
    {<<"parse_job", "source_candidates">>, <<"parse_job", "create_screening">>,
     <<"parse_job", "analyze_compensation">>,
     <<"source_candidates", "generate_offer">>,
     <<"create_screening", "END">>, <<"analyze_compensation", "END">>,
     <<"generate_offer", "END">>}

\* workflow.add_edge: the declared edges.
Edges == {<<"parse_job", "source_candidates">>, <<"parse_job", "create_screening">>,
          <<"parse_job", "analyze_compensation">>,
          <<"analyze_compensation", "generate_offer">>,
          <<"source_candidates", "END">>, <<"create_screening", "END">>,
          <<"generate_offer", "END">>}

\* The stages whose completion stage s waits for.
Deps(s) == {e[1] : e \in {d \in Edges : d[2] = s}}

\* The stages that complete before stage s can start.
RECURSIVE Ancestors(_)
Ancestors(s) == Deps(s) \cup UNION {Ancestors(d) : d \in Deps(s)}

\* The stages in the order workflow.add_node declares them.
DeclarationOrder ==
    <<"parse_job", "source_candidates", "create_screening", "analyze_compensation",
      "generate_offer">>

\* The output fields of other stages that the function of stage s reads.
OutputReads(s) ==
    IF s = "generate_offer" THEN {"job_analysis", "compensation_package"} ELSE {}

\* The stages with an edge to END.
Terminal == {s \in Stages : <<s, "END">> \in Edges}

\* A graph whose source_candidates node runs the job parser.
AgentSourcingParses(s, state, r) ==
    CASE s = "parse_job" -> job_parser_agent(state, r)
      [] s = "source_candidates" -> job_parser_agent(state, r)
      [] s = "create_screening" -> screening_agent(state, r)
      [] s = "analyze_compensation" -> compensation_agent(state, r)
      [] s = "generate_offer" -> offer_letter_agent(state, r)

\* workflow.add_node: the function each stage runs.
Agent(s, state, r) ==
    CASE s = "parse_job" -> job_parser_agent(state, r)
      [] s = "source_candidates" -> candidate_sourcing_agent(state, r)
      [] s = "create_screening" -> screening_agent(state, r)
      [] s = "analyze_compensation" -> compensation_agent(state, r)
      [] s = "generate_offer" -> offer_letter_agent(state, r)

\* A merge in which every key of the returned state replaces the channel,
\* an unset one included.
MergeReplacesAll(channels, ret) ==
    [ret EXCEPT !.messages = channels.messages \o ret.messages]

\* RecruitingState: messages is merged with operator.add, every other key a
\* stage returns replaces the channel's value; a key the returned dict does
\* not hold is not written.
Merge(channels, ret) ==
    [job_description |-> ret.job_description,
     company_name |-> ret.company_name,
     department |-> ret.department,
     min_salary |-> ret.min_salary,
     max_salary |-> ret.max_salary,
     job_analysis |-> IF ret.job_analysis = Absent THEN channels.job_analysis
                      ELSE ret.job_analysis,
     sourcing_strategy |-> IF ret.sourcing_strategy = Absent
                           THEN channels.sourcing_strategy ELSE ret.sourcing_strategy,
     screening_criteria |-> IF ret.screening_criteria = Absent
                            THEN channels.screening_criteria ELSE ret.screening_criteria,
     compensation_package |-> IF ret.compensation_package = Absent
                              THEN channels.compensation_package
                              ELSE ret.compensation_package,
     offer_letter |-> IF ret.offer_letter = NoLetter THEN channels.offer_letter
                      ELSE ret.offer_letter,
     errors |-> ret.errors,
     validation_results |-> ret.validation_results,
     messages |-> channels.messages \o ret.messages]

\* The inputs a run is started with.
Descriptions == {[len |-> 20, pad |-> 0], [len |-> 60, pad |-> 0]}
Companies == {"TechCorp Inc."}
Departments == {"Engineering"}
Budgets == {<<120000, 160000>>}

InitialState(jd, company, dept, budget) ==
    [job_description |-> jd, company_name |-> company, department |-> dept,
     min_salary |-> budget[1], max_salary |-> budget[2],
     job_analysis |-> Absent, sourcing_strategy |-> Absent,
     screening_criteria |-> Absent, compensation_package |-> Absent,
     offer_letter |-> NoLetter,
     errors |-> <<>>, validation_results |-> <<>>, messages |-> <<>>]

\* Whether stage s, given this state, makes its llm.invoke call.
CallsCompletion(s, state) == s # "parse_job" \/ validate_input(state).valid

Eligible(s) ==
    /\ status[s] = "idle"
    /\ \A d \in Deps(s) : status[d] = "done"
    /\ s = EntryPoint \/ Deps(s) # {}

InitGraph ==
    /\ \E jd \in Descriptions, company \in Companies, dept \in Departments,
          budget \in Budgets : chan = InitialState(jd, company, dept, budget)
    /\ given = [s \in Stages |-> chan]
    /\ status = [s \in Stages |-> "idle"]
    /\ outcome = [s \in Stages |-> "none"]
    /\ calls = [s \in Stages |-> 0]
    /\ run = "running"
    /\ completed = <<>>
    /\ responded = [s \in Stages |-> NoResponse]

\* A stage becomes eligible, is handed the current state and (unless input
\* validation stops it) dispatches its completion call.
StartStage(s) ==
    /\ run = "running"
    /\ Eligible(s)
    /\ status' = [status EXCEPT ![s] = "running"]
    /\ given' = [given EXCEPT ![s] = chan]
    /\ calls' = [calls EXCEPT ![s] = IF CallsCompletion(s, chan) THEN @ + 1 ELSE @]
    /\ UNCHANGED <<chan, outcome, run, completed, responded>>

\* The completion call of a running stage ends with response r; the stage
\* function finishes and its returned state is merged, or its exception
\* ends graph.invoke.
CompleteStage(s) ==
    /\ run = "running"
    /\ status[s] = "running"
    /\ \E r \in Responses(s) :
         LET res == Agent(s, given[s], r) IN
         /\ outcome' = [outcome EXCEPT ![s] = IF calls[s] = 0 THEN "none" ELSE r.kind]
         /\ responded' = [responded EXCEPT ![s] = IF calls[s] = 0 THEN NoResponse ELSE r]
         /\ IF res.raised
            THEN /\ status' = [status EXCEPT ![s] = "raised"]
                 /\ run' = "raised"
                 /\ chan' = chan
                 /\ completed' = completed
            ELSE /\ status' = [status EXCEPT ![s] = "done"]
                 /\ run' = run
                 /\ chan' = Merge(chan, res.state)
                 /\ completed' = Append(completed, s)
    /\ UNCHANGED <<given, calls>>

parse_job == CompleteStage("parse_job")
source_candidates == CompleteStage("source_candidates")
create_screening == CompleteStage("create_screening")
analyze_compensation == CompleteStage("analyze_compensation")
generate_offer == CompleteStage("generate_offer")

\* graph.invoke returns the final state once no stage is running or eligible.
Finish ==
    /\ run = "running"
    /\ \A s \in Stages : status[s] # "running" /\ ~Eligible(s)
    /\ run' = "returned"
    /\ UNCHANGED <<chan, given, status, outcome, calls, completed, responded>>

----------------------------------------------------------------------------
(* The retry-decorated agent methods (agents/*.py).                        *)

MAX_RETRIES == 3

Methods == {"parse", "screen", "generate_strategy", "suggest_compensation",
            "generate_offer_letter"}

\* What the provider call does: a decodable response, a response that does
\* not decode, or a raised provider error.
ApiOutcomes == {"ok", "badjson", "fail"}

\* The body of a decorated method: `try: ... except Exception: return None`.
MethodBody(m, api) ==
    IF api = "fail" THEN [raised |-> FALSE, value |-> "None"]
    ELSE IF api = "badjson" /\ m # "generate_offer_letter"
    THEN [raised |-> FALSE, value |-> "None"]      \* json.loads raised, caught
    ELSE [raised |-> FALSE, value |-> "result"]

InitAgent ==
    /\ agentPc = [m \in Methods |-> "call"]
    /\ attempts = [m \in Methods |-> 0]
    /\ agentResult = [m \in Methods |-> [apis |-> <<>>, value |-> "None"]]

\* One attempt of @retry(stop=stop_after_attempt(MAX_RETRIES)): the method
\* body runs; the decorator tries again only if the body raised and attempts
\* remain, and raises RetryError once they are used up.
Attempt(m) ==
    /\ agentPc[m] = "call"
    /\ attempts[m] < MAX_RETRIES
    /\ \E api \in ApiOutcomes :
         LET out == MethodBody(m, api)
             n == attempts[m] + 1
         IN  /\ attempts' = [attempts EXCEPT ![m] = n]
             /\ agentPc' = [agentPc EXCEPT ![m] =
                    IF ~out.raised THEN "done"
                    ELSE IF n >= MAX_RETRIES THEN "failed" ELSE "call"]
             /\ agentResult' = [agentResult EXCEPT ![m] =
                    [apis |-> Append(@.apis, api),
                     value |-> IF out.raised THEN "RetryError" ELSE out.value]]

----------------------------------------------------------------------------
(* The batch processor (app.py).                                            *)

MaxBatch == 3

\* A job config: its job_title ("" when the key is missing) and whether it
\* holds the job_description key.
Configs == [job_title : {"", "Engineer"}, has_description : BOOLEAN]

\* progress_callback: None, a callback that returns, or one that may raise.
Callbacks == {"none", "returns", "raises"}

\* How graph.invoke can end for one item.
GraphOutcomes == {"returned", "raised"}

\* process_single: config['job_description'] raises KeyError on a config
\* without the key, and an exception of graph.invoke passes through.
process_single(config, g) ==
    IF ~config.has_description THEN [raised |-> TRUE, error |-> "KeyError", outputs |-> "none"]
    ELSE IF g = "raised" THEN [raised |-> TRUE, error |-> "provider error", outputs |-> "none"]
    ELSE [raised |-> FALSE, error |-> "", outputs |-> "final_state"]

\* process_batch without the except branch's entry: every item reported a success.
BatchEntryNoError(i, config, single) ==
    [batch_index |-> i, status |-> "success", error |-> "",
     config |-> config, outputs |-> single.outputs]

\* The entry process_batch appends for the item at index i.
BatchEntry(i, config, single) ==
    IF single.raised
    THEN [batch_index |-> i, status |-> "error", error |-> single.error,
          config |-> config, outputs |-> "none"]
    ELSE [batch_index |-> i, status |-> "success", error |-> "",
          config |-> config, outputs |-> single.outputs]

\* config.get('job_title', f'Job {idx+1}')
ItemLabel(i, config) ==
    IF config.job_title # "" THEN [text |-> config.job_title, n |-> 0]
    ELSE [text |-> "Job", n |-> i + 1]

InitBatch ==
    /\ configs \in UNION {[1..n -> Configs] : n \in 0..MaxBatch}
    /\ callback \in Callbacks
    /\ idx = 0
    /\ results = <<>>
    /\ progress = <<>>
    /\ runs = <<>>
    /\ bpc = IF Len(configs) = 0 THEN "returned" ELSE "notify"

\* `if progress_callback: progress_callback(idx, total, label)`; an exception
\* of the callback leaves process_batch.
Notify ==
    /\ bpc = "notify"
    /\ IF callback = "none"
       THEN /\ bpc' = "process"
            /\ progress' = progress
       ELSE /\ progress' = Append(progress,
                   <<idx, Len(configs), ItemLabel(idx, configs[idx + 1])>>)
            /\ \E fails \in (IF callback = "raises" THEN BOOLEAN ELSE {FALSE}) :
                 bpc' = IF fails THEN "raised" ELSE "process"
    /\ UNCHANGED <<configs, callback, idx, results, runs>>

\* The try/except around process_single, and the loop's step to the next item.
ProcessItem ==
    /\ bpc = "process"
    /\ \E g \in GraphOutcomes :
         LET single == process_single(configs[idx + 1], g) IN
         /\ results' = Append(results, BatchEntry(idx, configs[idx + 1], single))
         /\ runs' = Append(runs, IF single.raised THEN "raised" ELSE "returned")
    /\ idx' = idx + 1
    /\ bpc' = IF idx + 1 < Len(configs) THEN "notify" ELSE "returned"
    /\ UNCHANGED <<configs, callback, progress>>

----------------------------------------------------------------------------
(* Retrieval and concurrent screening of candidates (services/retriever.py, *)
(* vector_store/db.py, services/embedding.py, agents/orchestrator.py).     *)
(* The list retrieve_candidates_for_job returns is the list handed to      *)
(* screen_multiple_candidates.                                             *)

\* top_k: the most hits a vector search returns.
MaxCandidates == 3

\* Vector distances in hundredths; similarity_score = 1 - distance.
Distances == {50, 60}
Similarity(distance) == 100 - distance

\* What the vector index can answer: at most top_k distances, nearest first.
Hits ==
    {h \in UNION {[1..n -> Distances] : n \in 0..MaxCandidates} :
        \A i \in 1..(Len(h) - 1) : h[i] <= h[i + 1]}

SearchAnswers ==
    {[raised |-> FALSE, hits |-> h] : h \in Hits} \cup {[raised |-> TRUE, hits |-> <<>>]}

\* search_similar_resumes: the query's lists, or empty lists when it raised.
\* ids[i] is the i-th resume in retrieval order.
search_similar_resumes(answer) ==
    IF answer.raised
    THEN [ids |-> <<>>, distances |-> <<>>]
    ELSE [ids |-> [i \in 1..Len(answer.hits) |-> i], distances |-> answer.hits]

\* get_job_description: the stored record, or None when the id is unknown
\* or the lookup raised.
JdLookups == {"found", "unknown", "raised"}
get_job_description(lookup) == IF lookup = "found" THEN "jd" ELSE "None"

\* retrieve_candidates_for_job, the formatting loop: resume_text and metadata
\* travel with resume_id.
FormatResults(res) ==
    [i \in 1..Len(res.ids) |->
        [resume_id |-> res.ids[i], similarity_score |-> Similarity(res.distances[i])]]

\* A retrieval without its except clause: the exception leaves the call.
RetrieveRaises(e) == [pc |-> "raised", candidates |-> <<>>, retrieval |-> e]
\* retrieve_candidates_for_job, `except Exception`: logged, [] returned.
RetrieveExcept(e) == [pc |-> "tasks", candidates |-> <<>>, retrieval |-> e]

\* Screening results: a dict with its score, the empty dict, None, or the
\* exception gather hands back in place of a result.
Scores == {72, 81, 95}
Pending == [kind |-> "pending", keys |-> 0, score |-> 0]
Screened(s) == [kind |-> "dict", keys |-> 5, score |-> s]
EmptyDict == [kind |-> "dict", keys |-> 0, score |-> 0]
NoneResult == [kind |-> "none", keys |-> 0, score |-> 0]
RaisedException == [kind |-> "exception", keys |-> 0, score |-> 0]

\* Python truthiness of a gathered result.
Truthy(result) == result.kind = "dict" /\ result.keys > 0

\* What chat.completions.create can do for one resume.
ScreenApis ==
    {[ok |-> TRUE, body |-> Screened(s)] : s \in Scores}
        \cup {[ok |-> TRUE, body |-> EmptyDict], [ok |-> FALSE, body |-> NoneResult]}

\* ResumeScreenerAgent.screen: the decoded response, None on any exception.
screen(api) == IF api.ok THEN api.body ELSE NoneResult

\* A loop turn that appends whatever was gathered.
EnrichedKeepsFailed(cands, gathered, i) ==
    <<("screening" :> gathered[i]) @@ cands[i]>>
\* screen_multiple_candidates, one turn of the loop over the gathered
\* results: what it appends to enriched_results.
Enriched(cands, gathered, i) ==
    IF gathered[i].kind = "exception" THEN <<>>
    ELSE IF Truthy(gathered[i]) THEN <<("screening" :> gathered[i]) @@ cands[i]>>
    ELSE <<>>

RECURSIVE Combine(_, _, _)
Combine(cands, gathered, i) ==
    IF i > Len(gathered) THEN <<>>
    ELSE Enriched(cands, gathered, i) \o Combine(cands, gathered, i + 1)

InitRank ==
    /\ rkPc = "lookup"
    /\ retrieval = "none"
    /\ embedCalls = 0
    /\ embedWaits = <<>>
    /\ candidates = <<>>
    /\ tasks = <<>>
    /\ enriched = <<>>

\* retrieve_candidates_for_job up to `if not jd: return []`.
LookupJob ==
    /\ rkPc = "lookup"
    /\ \E lookup \in JdLookups :
         IF get_job_description(lookup) = "None"
         THEN /\ rkPc' = "tasks"
              /\ retrieval' = IF lookup = "unknown" THEN "jd_unknown" ELSE "jd_raised"
         ELSE /\ rkPc' = "embed"
              /\ UNCHANGED retrieval
    /\ UNCHANGED <<embedCalls, embedWaits, candidates, tasks, enriched>>

\* wait=wait_exponential(multiplier=1, min=4, max=10): the wait after
\* attempt number n is multiplier * 2^(n - 1), kept within [min, max].
WaitMultiplier == 1
WaitMin == 4
WaitMax == 10
wait_exponential(attempt_number) ==
    LET result == WaitMultiplier * 2 ^ (attempt_number - 1)
        capped == IF result < WaitMax THEN result ELSE WaitMax
    IN  IF capped > WaitMin THEN capped ELSE WaitMin

\* One attempt of generate_embedding: the method re-raises, so the retry
\* decorator waits and calls it again until MAX_RETRIES attempts have
\* failed, and then raises into retrieve_candidates_for_job.
generate_embedding ==
    /\ rkPc = "embed"
    /\ embedCalls' = embedCalls + 1
    /\ \E ok \in BOOLEAN :
         IF ok
         THEN /\ rkPc' = "search"
              /\ UNCHANGED <<retrieval, candidates, embedWaits>>
         ELSE IF embedCalls' < MAX_RETRIES
         THEN /\ embedWaits' = Append(embedWaits, wait_exponential(embedCalls'))
              /\ UNCHANGED <<rkPc, retrieval, candidates>>
         ELSE LET handled == RetrieveExcept("embedding_failed")
              IN  /\ rkPc' = handled.pc
                  /\ retrieval' = handled.retrieval
                  /\ candidates' = handled.candidates
                  /\ UNCHANGED embedWaits
    /\ UNCHANGED <<tasks, enriched>>

\* retrieve_candidates_for_job from the vector search to its return.
SearchResumes ==
    /\ rkPc = "search"
    /\ \E answer \in SearchAnswers :
         /\ candidates' = FormatResults(search_similar_resumes(answer))
         /\ retrieval' = IF answer.raised THEN "search_failed" ELSE "searched"
    /\ rkPc' = "tasks"
    /\ UNCHANGED <<embedCalls, embedWaits, tasks, enriched>>

\* screen_multiple_candidates: one task per candidate, then gather.
CreateTasks ==
    /\ rkPc = "tasks"
    /\ tasks' = [i \in 1..Len(candidates) |-> Pending]
    /\ rkPc' = "gather"
    /\ UNCHANGED <<retrieval, embedCalls, embedWaits, candidates, enriched>>

\* One task ends, in any order: with what screen returned, or with an
\* exception of the executor.
screen_resume_async(i) ==
    /\ rkPc = "gather"
    /\ tasks[i] = Pending
    /\ \E result \in {screen(api) : api \in ScreenApis} \cup {RaisedException} :
         tasks' = [tasks EXCEPT ![i] = result]
    /\ UNCHANGED <<rkPc, retrieval, embedCalls, embedWaits, candidates, enriched>>

\* gather has every result: screen_multiple_candidates combines and returns.
GatherReturns ==
    /\ rkPc = "gather"
    /\ \A i \in 1..Len(tasks) : tasks[i] # Pending
    /\ enriched' = Combine(candidates, tasks, 1)
    /\ rkPc' = "returned"
    /\ UNCHANGED <<retrieval, embedCalls, embedWaits, candidates, tasks>>

----------------------------------------------------------------------------
(* The validators of Validation_demo.py (AgentValidator) beside those of   *)
(* Langgraph_recruiting.py, and the calls made on them.  Messages are kept *)
(* without their leading status glyph.                                     *)

\* A result whose warnings quote the time of the call.
ValidationResultStamped(errors, warnings, now) ==
    [valid |-> Len(errors) = 0, errors |-> errors,
     warnings |-> warnings \o <<ToString(now)>>, timestamp |-> now]
\* The dict every AgentValidator method returns at its end.
ValidationResult(errors, warnings, now) ==
    [valid |-> Len(errors) = 0, errors |-> errors, warnings |-> warnings,
     timestamp |-> now]

AgentValidator_validate_input(state, now) ==
    LET job_desc == state.job_description
        min_sal == state.min_salary
        max_sal == state.max_salary
        short == job_desc.len = 0 \/ StripLen(job_desc) < MinDescriptionLen
        e1 == IF short
              THEN <<Err("input", "Job description must be at least 50 characters", <<>>)>>
              ELSE <<>>
        w1 == IF ~short /\ job_desc.len > MaxDescriptionLen
              THEN <<"Very long job description - may increase processing time">> ELSE <<>>
        e2 == IF state.company_name = ""
              THEN <<Err("input", "Company name is required", <<>>)>> ELSE <<>>
        w2 == IF state.department = ""
              THEN <<"Department not specified - using 'General'">> ELSE <<>>
        e3 == IF min_sal <= 0 \/ max_sal <= 0
              THEN <<Err("input", "Salary range must be positive numbers", <<>>)>>
              ELSE IF min_sal >= max_sal
              THEN <<Err("input", "Minimum salary must be less than maximum salary", <<>>)>>
              ELSE <<>>
        w3 == IF e3 # <<>> THEN <<>>
              ELSE IF min_sal < LowSalary THEN <<"Minimum salary seems very low">>
              ELSE IF max_sal > HighSalary THEN <<"Maximum salary seems very high">>
              ELSE <<>>
    IN  ValidationResult(e1 \o e2 \o e3, w1 \o w2 \o w3, now)

\* type_hints, in the order the dict is iterated.
TypeHints ==
    <<[field |-> "required_skills", type |-> "list"],
      [field |-> "responsibilities", type |-> "list"],
      [field |-> "platforms", type |-> "list"],
      [field |-> "screening_questions", type |-> "list"],
      [field |-> "benefits_package", type |-> "list"],
      [field |-> "target_salary", type |-> "num"],
      [field |-> "job_title", type |-> "str"],
      [field |-> "experience_level", type |-> "str"]>>

IsInstance(val, type) == val.t = type

\* The "is None" and "is empty" warnings, one turn per expected field.
RECURSIVE NoneOrEmptyWarnings(_, _, _)
NoneOrEmptyWarnings(agent_name, fields, output) ==
    IF fields = <<>> THEN <<>>
    ELSE (IF Head(fields) \notin DOMAIN output THEN <<>>
          ELSE IF output[Head(fields)].t = "null"
          THEN <<Err(agent_name, "Field is None", <<Head(fields)>>)>>
          ELSE IF IsEmptyValue(output[Head(fields)])
          THEN <<Err(agent_name, "Field is empty", <<Head(fields)>>)>>
          ELSE <<>>)
         \o NoneOrEmptyWarnings(agent_name, Tail(fields), output)

\* The type check, one turn per entry of type_hints.
RECURSIVE TypeWarnings(_, _, _)
TypeWarnings(agent_name, hints, output) ==
    IF hints = <<>> THEN <<>>
    ELSE (IF /\ Head(hints).field \in DOMAIN output
             /\ output[Head(hints).field].t # "null"
             /\ ~IsInstance(output[Head(hints).field], Head(hints).type)
          THEN <<Err(agent_name, "Field should be", <<Head(hints).field>>)>>
          ELSE <<>>)
         \o TypeWarnings(agent_name, Tail(hints), output)

AgentValidator_validate_agent_output(agent_name, output, expected_fields, now) ==
    IF output = NonDict
    THEN [valid |-> FALSE,
          errors |-> <<Err(agent_name, "Output must be a dictionary", <<>>)>>,
          warnings |-> <<>>]
    ELSE LET missing_fields == SelectMissing(expected_fields, output)
             errors == IF missing_fields # <<>>
                       THEN <<Err(agent_name, "Missing required fields", missing_fields)>>
                       ELSE <<>>
             warnings == NoneOrEmptyWarnings(agent_name, expected_fields, output)
                             \o TypeWarnings(agent_name, TypeHints, output)
         IN  ValidationResult(errors, warnings, now) @@
                 [fields_checked |-> Len(expected_fields)]

\* A stage result as validate_workflow_results reads it: a dict with or
\* without a true 'error' value and with or without 'target_salary', or a
\* value that is no dict (None, the return of a failed agent).
StageDict(error, has_target, target) ==
    [t |-> "dict", error |-> error, has_target |-> has_target, target_salary |-> target]
StageNone == [t |-> "null", error |-> "", has_target |-> FALSE, target_salary |-> 0]

required_agents ==
    <<"job_parser", "candidate_sourcing", "screening", "compensation", "offer_letter">>

\* result.get('error') of a dict result.
ReportsError(result) == result.t = "dict" /\ result.error # ""

AttributeError == [raised |-> TRUE, exception |-> "AttributeError"]

validate_workflow_results(res, now) ==
    LET missing_agents == SelectMissing(required_agents, res)
        e1 == IF missing_agents # <<>>
              THEN <<Err("workflow", "Missing results from agents", missing_agents)>>
              ELSE <<>>
        \* results.items() keeps the insertion order of the stages
        reporting == SelectSeq(required_agents,
                               LAMBDA a : a \in DOMAIN res /\ ReportsError(res[a]))
        e2 == [i \in 1..Len(reporting) |->
                  Err(reporting[i], "reported error", <<res[reporting[i]].error>>)]
        cross == "compensation" \in DOMAIN res /\ "offer_letter" \in DOMAIN res
        comp_salary == IF res["compensation"].has_target
                       THEN res["compensation"].target_salary ELSE 0
        warnings == IF cross /\ comp_salary = 0
                    THEN <<"Compensation has no target salary for offer letter">>
                    ELSE <<>>
    IN  IF cross /\ res["compensation"].t # "dict"
        THEN AttributeError
        ELSE [raised |-> FALSE] @@ ValidationResult(e1 \o e2, warnings, now) @@
                 [agents_completed |-> Len(required_agents) - Len(missing_agents),
                  total_agents |-> Len(required_agents)]

\* The inputs the validators are called on.
JobTexts ==
    {[len |-> 0, pad |-> 0], [len |-> 20, pad |-> 0], [len |-> 49, pad |-> 0],
     [len |-> 50, pad |-> 0], [len |-> 50, pad |-> 2], [len |-> 52, pad |-> 2],
     [len |-> 5001, pad |-> 0], [len |-> 5001, pad |-> 4990]}
Salaries == {-5, 0, 15000, 120000, 160000, 1200000}

InputStates ==
    [job_description : JobTexts, company_name : {"", "TechCorp Inc."},
     department : {"", "Engineering"}, min_salary : Salaries, max_salary : Salaries]

OutputFields == {"job_title", "required_skills", "target_salary"}
OutputValues ==
    {Str("Senior Python Developer"), Str(""), List(<<"Python">>), List(<<>>),
     Num(140000), None}
Outputs == UNION {[S -> OutputValues] : S \in SUBSET OutputFields} \cup {NonDict}
ExpectedFields ==
    {<<>>, <<"job_title">>, <<"job_title", "required_skills">>,
     <<"target_salary", "required_skills", "job_title">>}

Variants == {"Langgraph", "AgentValidator"}

Choices(a) ==
    CASE a = "job_parser" ->
            {StageDict("", FALSE, 0), StageDict("Failed to process", FALSE, 0)}
      [] a = "candidate_sourcing" -> {StageDict("", FALSE, 0)}
      [] a = "screening" ->
            {StageDict("", FALSE, 0), StageDict("Failed to process", FALSE, 0)}
      [] a = "compensation" ->
            {StageDict("", TRUE, 140000), StageDict("", TRUE, 0), StageDict("", FALSE, 0),
             StageDict("Validation failed", FALSE, 0), StageNone}
      [] a = "offer_letter" -> {StageDict("", FALSE, 0), StageNone}

Range_(q) == {q[i] : i \in DOMAIN q}

WorkflowResults ==
    UNION {{r \in [S -> UNION {Choices(a) : a \in S}] : \A a \in S : r[a] \in Choices(a)} :
              S \in SUBSET Range_(required_agents)}

Calls ==
    {[fn |-> "validate_input", variant |-> v, args |-> [state |-> s]] :
        v \in Variants, s \in InputStates}
    \cup {[fn |-> "validate_agent_output", variant |-> v,
           args |-> [agent_name |-> "Job Parser", output |-> o, expected_fields |-> e]] :
        v \in Variants, o \in Outputs, e \in ExpectedFields}
    \cup {[fn |-> "validate_workflow_results", variant |-> "AgentValidator",
           args |-> [results |-> r]] : r \in WorkflowResults}
    \cup {[fn |-> "compensation_agent", variant |-> "Langgraph",
           args |-> [state |-> InitialState(jd, "TechCorp Inc.", "Engineering", <<lo, hi>>)]] :
        jd \in Descriptions, lo \in Salaries, hi \in Salaries}

\* How often one call is repeated.
MaxCalls == 2

InitValidator ==
    /\ vCall \in Calls
    /\ vNow = 0
    /\ vReturned = <<>>

\* A call returns: the clock has moved on, the arguments are as the call
\* left them.
Return(out) ==
    /\ vReturned' = Append(vReturned, [out |-> out, args |-> vCall.args])
    /\ vNow' = vNow + 1
    /\ UNCHANGED vCall

ValidateInput ==
    /\ vCall.fn = "validate_input"
    /\ Len(vReturned) < MaxCalls
    /\ Return(IF vCall.variant = "Langgraph"
              THEN validate_input(vCall.args.state)
              ELSE AgentValidator_validate_input(vCall.args.state, vNow))

ValidateOutput ==
    /\ vCall.fn = "validate_agent_output"
    /\ Len(vReturned) < MaxCalls
    /\ Return(IF vCall.variant = "Langgraph"
              THEN validate_agent_output(vCall.args.agent_name, vCall.args.output,
                                         vCall.args.expected_fields)
              ELSE AgentValidator_validate_agent_output(
                       vCall.args.agent_name, vCall.args.output,
                       vCall.args.expected_fields, vNow))

ValidateWorkflow ==
    /\ vCall.fn = "validate_workflow_results"
    /\ Len(vReturned) < MaxCalls
    /\ Return(validate_workflow_results(vCall.args.results, vNow))

\* compensation_agent on a response that does not decode: the state it
\* returns holds the fallback package.
CompensationFallbackCall ==
    /\ vCall.fn = "compensation_agent"
    /\ Len(vReturned) < MaxCalls
    /\ Return(compensation_agent(vCall.args.state, Text(LongLetterLen)).state)

----------------------------------------------------------------------------
(* Specifications: one per component, the other components at rest.        *)

IdleGraph ==
    /\ chan = InitialState([len |-> 60, pad |-> 0], "TechCorp Inc.", "Engineering",
                           <<120000, 160000>>)
    /\ given = [s \in Stages |-> chan]
    /\ status = [s \in Stages |-> "idle"]
    /\ outcome = [s \in Stages |-> "none"]
    /\ calls = [s \in Stages |-> 0]
    /\ run = "returned"
    /\ completed = <<>>
    /\ responded = [s \in Stages |-> NoResponse]

IdleBatch ==
    /\ configs = <<>>
    /\ callback = "none"
    /\ idx = 0
    /\ results = <<>>
    /\ progress = <<>>
    /\ runs = <<>>
    /\ bpc = "returned"

IdleAgent ==
    /\ agentPc = [m \in Methods |-> "done"]
    /\ attempts = [m \in Methods |-> 0]
    /\ agentResult = [m \in Methods |-> [apis |-> <<>>, value |-> "None"]]

IdleRank ==
    /\ rkPc = "returned"
    /\ retrieval = "none"
    /\ embedCalls = 0
    /\ embedWaits = <<>>
    /\ candidates = <<>>
    /\ tasks = <<>>
    /\ enriched = <<>>

IdleValidator ==
    /\ vCall = [fn |-> "none"]
    /\ vNow = 0
    /\ vReturned = <<>>

Init == InitGraph /\ IdleAgent /\ IdleBatch /\ IdleRank /\ IdleValidator

Next ==
    \/ (\E s \in Stages : StartStage(s)) /\ UNCHANGED <<agentVars, batchVars, rankVars, validatorVars>>
    \/ parse_job /\ UNCHANGED <<agentVars, batchVars, rankVars, validatorVars>>
    \/ source_candidates /\ UNCHANGED <<agentVars, batchVars, rankVars, validatorVars>>
    \/ create_screening /\ UNCHANGED <<agentVars, batchVars, rankVars, validatorVars>>
    \/ analyze_compensation /\ UNCHANGED <<agentVars, batchVars, rankVars, validatorVars>>
    \/ generate_offer /\ UNCHANGED <<agentVars, batchVars, rankVars, validatorVars>>
    \/ Finish /\ UNCHANGED <<agentVars, batchVars, rankVars, validatorVars>>

Spec == Init /\ [][Next]_vars

InitAgents == IdleGraph /\ InitAgent /\ IdleBatch /\ IdleRank /\ IdleValidator

NextAgents == (\E m \in Methods : Attempt(m)) /\ UNCHANGED <<graphVars, batchVars, rankVars, validatorVars>>

SpecAgents == InitAgents /\ [][NextAgents]_vars

InitBatches == IdleGraph /\ IdleAgent /\ InitBatch /\ IdleRank /\ IdleValidator

NextBatches ==
    \/ Notify /\ UNCHANGED <<graphVars, agentVars, rankVars, validatorVars>>
    \/ ProcessItem /\ UNCHANGED <<graphVars, agentVars, rankVars, validatorVars>>

SpecBatch == InitBatches /\ [][NextBatches]_vars

InitRanking == IdleGraph /\ IdleAgent /\ IdleBatch /\ InitRank /\ IdleValidator

NextRanking ==
    \/ LookupJob /\ UNCHANGED <<graphVars, agentVars, batchVars, validatorVars>>
    \/ generate_embedding /\ UNCHANGED <<graphVars, agentVars, batchVars, validatorVars>>
    \/ SearchResumes /\ UNCHANGED <<graphVars, agentVars, batchVars, validatorVars>>
    \/ CreateTasks /\ UNCHANGED <<graphVars, agentVars, batchVars, validatorVars>>
    \/ (\E i \in 1..Len(tasks) : screen_resume_async(i))
           /\ UNCHANGED <<graphVars, agentVars, batchVars, validatorVars>>
    \/ GatherReturns /\ UNCHANGED <<graphVars, agentVars, batchVars, validatorVars>>

SpecRank == InitRanking /\ [][NextRanking]_vars

InitValidators == IdleGraph /\ IdleAgent /\ IdleBatch /\ IdleRank /\ InitValidator

NextValidators ==
    \/ ValidateInput /\ UNCHANGED <<graphVars, agentVars, batchVars, rankVars>>
    \/ ValidateOutput /\ UNCHANGED <<graphVars, agentVars, batchVars, rankVars>>
    \/ ValidateWorkflow /\ UNCHANGED <<graphVars, agentVars, batchVars, rankVars>>
    \/ CompensationFallbackCall /\ UNCHANGED <<graphVars, agentVars, batchVars, rankVars>>

SpecValidators == InitValidators /\ [][NextValidators]_vars

----------------------------------------------------------------------------
(* Claims about the workflow graph.                                         *)

Branches == {"source_candidates", "create_screening", "analyze_compensation"}

\* C1: parse_job completes before source_candidates, create_screening or
\* analyze_compensation starts, and generate_offer starts only after
\* analyze_compensation has completed.
C1_ParseFirst ==
    /\ \A s \in Branches : status[s] # "idle" => status["parse_job"] = "done"
    /\ status["generate_offer"] # "idle" => status["analyze_compensation"] = "done"

C1_Witness ==
    /\ run = "returned"
    /\ \A s \in Stages : status[s] = "done"

\* C2: the graph run never ends by a raised fault, whatever the completion
\* capability does inside a stage.
C2_NeverRaises == run # "raised"

\* The dict outputs the completion capability can hand to stage s.
RealOutputs(s) == {r.body : r \in {x \in Responses(s) : x.kind = "json" /\ x.body # NonDict}}

WithRange(body, state) ==
    IF "recommended_salary_range" \in DOMAIN body THEN body
    ELSE body @@ ("recommended_salary_range" :> Range(state.min_salary, state.max_salary))

\* C3: when a run completes, every output field holds the stage's real
\* output or the stage's full fallback default.
C3_CompleteOutputs ==
    run = "returned" =>
        /\ chan.job_analysis \in RealOutputs("parse_job") \cup {JobFallback}
        /\ chan.sourcing_strategy \in RealOutputs("source_candidates") \cup {SourcingFallback}
        /\ chan.screening_criteria \in RealOutputs("create_screening") \cup {ScreeningFallback}
        /\ chan.compensation_package \in
               {WithRange(b, chan) : b \in RealOutputs("analyze_compensation")}
               \cup {CompensationFallback(chan)}
        /\ chan.offer_letter # NoLetter

\* The entries of errors that report a stage's undecodable response (for the
\* offer stage: any entry of the stage).
DecodingEntries(errors) ==
    {i \in 1..Len(errors) : errors[i].msg = "Failed to parse LLM response"
                            \/ errors[i].src = "Offer Letter"}

\* C4: with a capability that always returns non-JSON payloads, every output
\* field equals its stage's fallback default and errors holds exactly one
\* decoding-failure entry per stage, five in all.
C4_AllFallbacks ==
    (run = "returned" /\ \A s \in Stages : outcome[s] = "text") =>
        /\ chan.job_analysis = JobFallback
        /\ chan.sourcing_strategy = SourcingFallback
        /\ chan.screening_criteria = ScreeningFallback
        /\ chan.compensation_package = CompensationFallback(chan)
        /\ chan.offer_letter = ErrorLetter
        /\ Cardinality(DecodingEntries(chan.errors)) = Cardinality(Stages)

\* A stage ended with a failure: rejected input, undecodable response or
\* failed completion call.
StageFailed(s) ==
    /\ status[s] \in {"done", "raised"}
    /\ outcome[s] \in {"text", "fail"} \/ (s = "parse_job" /\ calls[s] = 0)

\* C6: a failed dependency does not block downstream stages: by the end of
\* the run the three branches have run after a failed parse_job, and
\* generate_offer has run after a failed analyze_compensation.
C6_FailureDoesNotBlock ==
    run # "running" =>
        /\ StageFailed("parse_job") => \A s \in Branches : status[s] \in {"done", "raised"}
        /\ StageFailed("analyze_compensation") =>
               status["generate_offer"] \in {"done", "raised"}

C8_AllStagesRun ==
    /\ run # "running" => \A s \in Stages : status[s] = "done"
    /\ run = "returned" <=> \A s \in Terminal : status[s] = "done"

----------------------------------------------------------------------------
(* Claims about the retry-decorated agents.                                 *)

AlwaysFailed(m) ==
    /\ agentResult[m].apis # <<>>
    /\ \A i \in 1..Len(agentResult[m].apis) : agentResult[m].apis[i] = "fail"

\* C5: with a capability that always fails, a stage makes exactly
\* MAX_RETRIES attempts before it gives up and falls back.
C5_ExactRetryBudget ==
    \A m \in Methods :
        (agentPc[m] # "call" /\ AlwaysFailed(m)) => attempts[m] = MAX_RETRIES

----------------------------------------------------------------------------
(* Claims about the batch processor.                                        *)

\* C9: process_batch keeps one entry per processed config, in input order,
\* entry i carrying index i and the config; the entry's status is error
\* (with the message) exactly when the item's run raised; after an item
\* that raised the loop goes on, and a returned batch covers every config.
C9_OneEntryPerConfig ==
    /\ Len(results) = idx
    /\ Len(runs) = idx
    /\ bpc = "returned" => idx = Len(configs)
    /\ \A i \in 1..Len(results) :
         /\ results[i].batch_index = i - 1
         /\ results[i].config = configs[i]
         /\ results[i].status = (IF runs[i] = "raised" THEN "error" ELSE "success")
         /\ results[i].status = "error" => results[i].error # ""

\* A batch of three returned with only its middle item failed.
C9_Witness ==
    /\ bpc = "returned"
    /\ Len(configs) = 3
    /\ runs = <<"returned", "raised", "returned">>
    /\ results[2].status = "error"

\* C10: the progress callback does not affect the outcome: whatever the
\* callback does, process_batch ends by returning one entry per config.
C10_CallbackHasNoEffect ==
    bpc \in {"returned", "raised"} =>
        /\ bpc = "returned"
        /\ Len(results) = Len(configs)

----------------------------------------------------------------------------
(* Claims about retrieval and candidate screening.                          *)

\* Candidate a may stand before candidate b in a ranked list: higher
\* screening score, then higher similarity_score, then earlier retrieval.
RankedBefore(a, b) ==
    \/ a.screening.score > b.screening.score
    \/ /\ a.screening.score = b.screening.score
       /\ a.similarity_score > b.similarity_score
    \/ /\ a.screening.score = b.screening.score
       /\ a.similarity_score = b.similarity_score
       /\ a.resume_id < b.resume_id

\* C11: the returned candidate list is sorted by screening score
\* descending, ties broken by similarity_score descending and then by
\* retrieval order.
C11_SortedByScore ==
    rkPc = "returned" =>
        \A i, j \in 1..Len(enriched) : i < j => RankedBefore(enriched[i], enriched[j])

\* A screening that raised or yielded no result.
Failed(result) == result.kind \in {"exception", "none"} \/ ~Truthy(result)

Survivors == SelectSeq([i \in 1..Len(tasks) |-> i], LAMBDA i : ~Failed(tasks[i]))

\* C12: there is one screening task per candidate, the tasks end in any
\* order, and whichever of them fail, the returned list is exactly the
\* other candidates, in order, each with its fields unchanged plus its own
\* screening result; the batch never ends in an exception.
C12_FailureExcludesOnlyThatCandidate ==
    /\ rkPc # "raised"
    /\ rkPc \in {"gather", "returned"} => Len(tasks) = Len(candidates)
    /\ rkPc = "returned" =>
         /\ Len(enriched) = Len(Survivors)
         /\ \A k \in 1..Len(enriched) :
              enriched[k] = [resume_id |-> candidates[Survivors[k]].resume_id,
                             similarity_score |-> candidates[Survivors[k]].similarity_score,
                             screening |-> tasks[Survivors[k]]]

\* Three candidates, the second one's task raised, the third one's task
\* returned None: only the first is returned.
C12_Witness ==
    /\ rkPc = "returned"
    /\ Len(candidates) = 3
    /\ tasks[1] = Screened(72)
    /\ tasks[2] = RaisedException
    /\ tasks[3] = NoneResult
    /\ Len(enriched) = 1
    /\ enriched[1].resume_id = 1

\* C13: retrieval ends with an empty list, never an exception, when the
\* job description is unknown or its lookup fails, when the embedding call
\* fails for good, when the vector search fails and when it finds nothing;
\* screening an empty candidate list returns an empty list.
C13_EmptyNotFailure ==
    /\ rkPc # "raised"
    /\ retrieval \in {"jd_unknown", "jd_raised", "embedding_failed", "search_failed"}
           => candidates = <<>>
    /\ rkPc = "returned" /\ candidates = <<>> => enriched = <<>>

\* Every attempt of the embedding call failed and ranking returned [].
C13_Witness ==
    /\ rkPc = "returned"
    /\ retrieval = "embedding_failed"
    /\ embedCalls = MAX_RETRIES
    /\ candidates = <<>>
    /\ enriched = <<>>

----------------------------------------------------------------------------
(* Claims about the validators.                                             *)

InputCall == vCall.fn = "validate_input"
OutputCall == vCall.fn = "validate_agent_output"
WorkflowCall == vCall.fn = "validate_workflow_results"
Outs == {vReturned[i].out : i \in 1..Len(vReturned)}

SalariesInOrder(state) ==
    /\ 0 < state.min_salary
    /\ state.min_salary < state.max_salary
    /\ state.max_salary <= HighSalary

\* The claim as stated: a description of at least 50 characters, whitespace
\* counted, with the company set and 0 < floor < ceiling <= 1,000,000, is
\* valid with zero errors.
C14_AnyFiftyCharactersValid ==
    InputCall /\ vCall.args.state.job_description.len >= MinDescriptionLen
              /\ vCall.args.state.company_name # ""
              /\ SalariesInOrder(vCall.args.state)
        => \A out \in Outs : out.valid /\ out.errors = <<>>

\* C14: for every input whose description has at least 50 characters once
\* leading and trailing whitespace is stripped, with the company set and
\* 0 < floor < ceiling <= 1,000,000, validate_input returns valid = true
\* with zero errors.
C14_StrippedFiftyCharactersValid ==
    InputCall /\ vCall.args.state.job_description.len
                     - vCall.args.state.job_description.pad >= MinDescriptionLen
              /\ vCall.args.state.company_name # ""
              /\ SalariesInOrder(vCall.args.state)
        => \A out \in Outs : out.valid /\ out.errors = <<>>

\* A 52-character description with two characters of surrounding
\* whitespace was validated and accepted.
C14_Witness ==
    /\ InputCall
    /\ vCall.args.state.job_description = [len |-> 52, pad |-> 2]
    /\ vCall.args.state.company_name # ""
    /\ SalariesInOrder(vCall.args.state)
    /\ Len(vReturned) > 0
    /\ vReturned[1].out.valid

OrderingErrors(errors) ==
    SelectSeq(errors, LAMBDA e : e.msg = "Minimum salary must be less than maximum salary")

\* C15: for every input with floor >= ceiling, zero and negative bounds
\* included, validate_input returns valid = false and exactly one of its
\* errors is about the salary ordering.
C15_OneOrderingError ==
    InputCall /\ vCall.args.state.min_salary >= vCall.args.state.max_salary
        => \A out \in Outs : ~out.valid /\ Len(OrderingErrors(out.errors)) = 1

Warns(out, text) == \E i \in 1..Len(out.warnings) : out.warnings[i] = text

\* C16: each warning condition of validate_input yields its warning
\* whatever the other conditions are (description over 5000 characters,
\* department unset, floor < 20000, ceiling > 1,000,000), and an input
\* without an error condition is valid whatever warnings it gets.
C16_IndependentWarnings ==
    InputCall =>
        \A out \in Outs :
            LET state == vCall.args.state
            IN  /\ state.job_description.len > MaxDescriptionLen
                      => Warns(out, "Very long job description - may increase processing time")
                /\ state.department = ""
                      => Warns(out, "Department not specified - using 'General'")
                /\ state.min_salary < LowSalary => Warns(out, "Minimum salary seems very low")
                /\ state.max_salary > HighSalary => Warns(out, "Maximum salary seems very high")
                /\ out.valid = (out.errors = <<>>)
                /\ ( /\ StripLen(state.job_description) >= MinDescriptionLen
                     /\ state.company_name # ""
                     /\ 0 < state.min_salary
                     /\ state.min_salary < state.max_salary ) => out.valid

EmptyOutputCall ==
    /\ OutputCall
    /\ vCall.args.output # NonDict
    /\ DOMAIN vCall.args.output = {}
    /\ vCall.args.expected_fields # <<>>

TypeMismatchWarnings(out) == SelectSeq(out.warnings, LAMBDA w : w.msg = "Field should be")

\* The claim as stated: on an empty output there are as many errors as
\* required fields.
C17_OneErrorPerMissingField ==
    EmptyOutputCall =>
        \A out \in Outs :
            /\ ~out.valid
            /\ Len(out.errors) = Len(vCall.args.expected_fields)
            /\ TypeMismatchWarnings(out) = <<>>

\* C17: validate_agent_output called with an empty output and a non-empty
\* list of required fields returns valid = false with exactly one error,
\* which names every required field, and no warning about a type mismatch.
C17_OneErrorNamesEveryMissingField ==
    EmptyOutputCall =>
        \A out \in Outs :
            /\ ~out.valid
            /\ Len(out.errors) = 1
            /\ out.errors[1].fields = vCall.args.expected_fields
            /\ TypeMismatchWarnings(out) = <<>>

\* An empty output was validated against two required fields.
C17_Witness ==
    /\ EmptyOutputCall
    /\ vCall.args.expected_fields = <<"job_title", "required_skills">>
    /\ Len(vReturned) > 0
    /\ Len(vReturned[1].out.errors) = 1

HintedType(field) ==
    LET hits == SelectSeq(TypeHints, LAMBDA h : h.field = field)
    IN  IF hits = <<>> THEN "any" ELSE hits[1].type

WarnsAbout(out, field) == \E i \in 1..Len(out.warnings) : out.warnings[i].fields = <<field>>

C19_WorkflowCompletion ==
    WorkflowCall =>
        \A out \in Outs :
            LET res == vCall.args.results
                absent == \E i \in 1..Len(required_agents) : required_agents[i] \notin DOMAIN res
                marked == \E a \in DOMAIN res : res[a].error # ""
                no_salary == /\ {"compensation", "offer_letter"} \subseteq DOMAIN res
                             /\ \/ ~res["compensation"].has_target
                                \/ res["compensation"].target_salary = 0
            IN  /\ ~out.raised
                /\ out.valid = ~(absent \/ marked)
                /\ no_salary => out.warnings # <<>>

Triple(out) == <<out.valid, out.errors, out.warnings>>

\* C20: validate_input and validate_agent_output, called again on the same
\* arguments at a later time, return the same (valid, errors, warnings),
\* and each call leaves its arguments as it found them.
C20_SameTripleEveryCall ==
    InputCall \/ OutputCall =>
        \A i, j \in 1..Len(vReturned) :
            /\ Triple(vReturned[i].out) = Triple(vReturned[j].out)
            /\ vReturned[i].args = vCall.args

\* AgentValidator validated the same input twice, at different times.
C20_Witness ==
    /\ InputCall
    /\ vCall.variant = "AgentValidator"
    /\ Len(vReturned) = 2
    /\ vReturned[1].out.timestamp # vReturned[2].out.timestamp
    /\ Len(vReturned[1].out.warnings) > 0

----------------------------------------------------------------------------
(* Claims about the state a run threads through its stages.                 *)

\* The output field of each stage and the five input fields.
OutputOf ==
    [parse_job |-> "job_analysis", source_candidates |-> "sourcing_strategy",
     create_screening |-> "screening_criteria",
     analyze_compensation |-> "compensation_package", generate_offer |-> "offer_letter"]

InputsOf(state) ==
    <<state.job_description, state.company_name, state.department,
      state.min_salary, state.max_salary>>

Populated(s, state) ==
    IF s = "generate_offer" THEN state.offer_letter # NoLetter
    ELSE state[OutputOf[s]] # Absent

IsPrefix(p, q) == Len(p) <= Len(q) /\ SubSeq(q, 1, Len(p)) = p

\* C21: when validate_input rejects the input, parse_job records the
\* validation errors, still makes its completion call, and job_analysis
\* ends as a real or a fallback analysis.
C21_ValidationDegrades ==
    status["parse_job"] = "done" /\ ~validate_input(given["parse_job"]).valid =>
        /\ calls["parse_job"] = 1
        /\ chan.job_analysis \in {JobReal, JobPartial, JobFallback}

\* C22: an entry that is in errors stays in errors in every later state of
\* the run, also while the three middle stages run concurrently.
C22_ErrorsMonotonic ==
    [][\A i \in 1..Len(chan.errors) :
          \E j \in 1..Len(chan'.errors) : chan'.errors[j] = chan.errors[i]]_vars

\* C23: a completing stage leaves the five input fields and the output
\* field of every other stage as they were; to the logs of the state it
\* was given it only adds.
C23_StageFrame ==
    [][\A s \in Stages :
          status[s] = "running" /\ status'[s] = "done" =>
              /\ InputsOf(chan') = InputsOf(chan)
              /\ \A o \in Stages \ {s} : chan'[OutputOf[o]] = chan[OutputOf[o]]
              /\ IsPrefix(given[s].errors, chan'.errors)
              /\ DOMAIN given[s].validation_results \subseteq DOMAIN chan'.validation_results
      ]_vars

\* source_candidates was handed the state before analyze_compensation
\* wrote its package and completed after it: the package is still there.
C23_Witness ==
    /\ status["source_candidates"] = "done"
    /\ status["analyze_compensation"] = "done"
    /\ given["source_candidates"].compensation_package = Absent
    /\ \E i, j \in 1..Len(completed) :
          /\ i < j
          /\ completed[i] = "analyze_compensation"
          /\ completed[j] = "source_candidates"
    /\ chan.compensation_package # Absent
    /\ chan.sourcing_strategy # Absent

\* C25: once a stage's output field is populated no later step changes it,
\* and the only step that populates it is the completion of its stage.
C25_PopulatedOnce ==
    [][\A s \in Stages :
          /\ Populated(s, chan) => chan'[OutputOf[s]] = chan[OutputOf[s]]
          /\ chan'[OutputOf[s]] # chan[OutputOf[s]]
                => status[s] = "running" /\ status'[s] = "done"
      ]_vars

\* A run returned with all five output fields populated.
C25_Witness ==
    /\ run = "returned"
    /\ \A s \in Stages : Populated(s, chan)
    /\ Len(completed) = 5

AncestorOutputs(s) == {OutputOf[a] : a \in Ancestors(s)}

\* The state the stages leave when they run one after the other in
\* declaration order, each on the response it got in this run.
RECURSIVE RunInOrder(_, _)
RunInOrder(state, order) ==
    IF order = <<>> THEN state
    ELSE LET res == Agent(Head(order), state, responded[Head(order)])
         IN  IF res.raised THEN state
             ELSE RunInOrder(Merge(state, res.state), Tail(order))

OutputsOf(state) == [s \in Stages |-> state[OutputOf[s]]]

Entry(s) ==
    CASE s = "parse_job" -> "Job Parser completed"
      [] s = "source_candidates" -> "Sourcing strategy created"
      [] s = "create_screening" -> "Screening created"
      [] s = "analyze_compensation" -> "Compensation package"
      [] s = "generate_offer" -> "Offer letter generated"

Positions(s) == {i \in 1..Len(chan.messages) : chan.messages[i] = Entry(s)}

\* C26: in the final state the trace entry of stage A stands before that
\* of stage B whenever A completed before B.
C26_TraceInCompletionOrder ==
    run = "returned" =>
        \A a, b \in 1..Len(completed) :
            a < b => \A i \in Positions(completed[a]), j \in Positions(completed[b]) : i < j

JsonStages == {"parse_job", "source_candidates", "create_screening", "analyze_compensation"}

ValidationKey ==
    [parse_job |-> "job_parser", source_candidates |-> "sourcing",
     create_screening |-> "screening", analyze_compensation |-> "compensation"]

Fallback(s, state) ==
    CASE s = "parse_job" -> JobFallback
      [] s = "source_candidates" -> SourcingFallback
      [] s = "create_screening" -> ScreeningFallback
      [] s = "analyze_compensation" -> CompensationFallback(state)

\* C27: a stage whose response did not decode has written its default
\* payload, and validation_results holds an entry for it with valid false.
C27_DecodeFailureReported ==
    \A s \in JsonStages :
        status[s] = "done" /\ outcome[s] = "text" =>
            /\ chan[OutputOf[s]] = Fallback(s, given[s])
            /\ ValidationKey[s] \in DOMAIN chan.validation_results
            /\ ~chan.validation_results[ValidationKey[s]].valid

\* C28: the waits between attempts start at the minimum wait and double
\* up to the maximum wait, and there are never more than MAX_RETRIES
\* attempts.
C28_WaitsDouble ==
    /\ embedCalls <= MAX_RETRIES
    /\ \A i \in 1..Len(embedWaits) :
          embedWaits[i] = IF WaitMin * 2 ^ (i - 1) < WaitMax
                          THEN WaitMin * 2 ^ (i - 1) ELSE WaitMax

\* C29: in the final state the trace holds exactly one entry for each
\* stage that completed and none for any other.
C29_OneEntryPerStage ==
    run = "returned" =>
        \A s \in Stages :
            Cardinality(Positions(s)) =
                IF \E i \in 1..Len(completed) : completed[i] = s THEN 1 ELSE 0

FallbackCall == vCall.fn = "compensation_agent"

\* C30: the fallback package of the compensation stage has the input
\* bounds as its recommended range and the integer midpoint of the bounds
\* as its target_salary, which lies within the bounds when min <= max.
C30_FallbackMidpoint ==
    FallbackCall =>
        \A out \in Outs :
            LET lo == vCall.args.state.min_salary
                hi == vCall.args.state.max_salary
                package == out.compensation_package
                target == package["target_salary"].n[1]
            IN  /\ package["recommended_salary_range"].v = <<"min", "max">>
                /\ package["recommended_salary_range"].n = <<lo, hi>>
                /\ package["target_salary"].t = "num"
                /\ 2 * target <= lo + hi
                /\ lo + hi < 2 * target + 2
                /\ lo <= hi => lo <= target /\ target <= hi

\* The fallback was taken for the bounds 15000 and 120000, whose sum is odd
\* when halved: the target is 67500.
C30_Witness ==
    /\ FallbackCall
    /\ vCall.args.state.min_salary = 15000
    /\ vCall.args.state.max_salary = 120000
    /\ Len(vReturned) > 0
    /\ vReturned[1].out.compensation_package["target_salary"] = Num(67500)

====
